---- MODULE Spec2Model ----
(***************************************************************************)
(* A model of q1.py: the data splitter, the six layers of the hand-written *)
(* CNN (forward and backward), the train() driver and the training loop.   *)
(*                                                                         *)
(* Numbers.  numpy computes in float64.  The model computes in fixed point *)
(* with Scale units per 1.0: a real v is the integer v*Scale, a product is *)
(* rescaled by Scale.  On integer-valued tensors (multiples of Scale) the  *)
(* fixed-point arithmetic is exact, as float64 is on small integers.       *)
(*                                                                         *)
(* Arrays.  A numpy array is a record [shape, val]: shape is the tuple of  *)
(* dimensions and val maps each 0-based index tuple to its entry.          *)
(***************************************************************************)
EXTENDS Integers, Sequences, FiniteSets, TLC

VARIABLES
    pc,      \* position of the running script / driver
    split,   \* split_data: its arguments, locals and return value
    layers,  \* the list of layer objects (conv_filter, bias, caches)
    call,    \* the layer call in progress or just returned: arguments and result
    tr,      \* train(): its arguments and locals, and the driver's step count
    main     \* the training loop of __main__: its counters and what it printed

vars == <<pc, split, layers, call, tr, main>>

----------------------------------------------------------------------------
(* Bounds of the model *)

MaxN == 5        \* split_data: at most this many samples
MaxDen == 4      \* split_data: train_ratio is n/d with 1 <= n <= d <= MaxDen
MaxSteps == 2    \* train(): at most this many calls on the shared layer list
MaxImages == 200 \* training loop: at most this many training images

----------------------------------------------------------------------------
(* Arithmetic *)

Scale == 1000

Min(a, b) == IF a < b THEN a ELSE b
Max(a, b) == IF a > b THEN a ELSE b

\* a * b
FMul(a, b) == (a * b) \div Scale

\* a / b, b > 0
FDiv(a, b) == (a * Scale) \div b

RECURSIVE SumFun(_)
SumFun(f) ==
    IF DOMAIN f = {} THEN 0
    ELSE LET x == CHOOSE y \in DOMAIN f : TRUE
         IN  f[x] + SumFun([y \in DOMAIN f \ {x} |-> f[y]])

RECURSIVE Prod(_)
Prod(s) == IF s = <<>> THEN 1 ELSE Head(s) * Prod(Tail(s))

----------------------------------------------------------------------------
(* numpy arrays *)

Idx(shape) ==
    CASE Len(shape) = 0 -> {<<>>}
      [] Len(shape) = 1 -> {<<i>> : i \in 0..(shape[1] - 1)}
      [] Len(shape) = 2 -> (0..(shape[1] - 1)) \X (0..(shape[2] - 1))
      [] Len(shape) = 3 ->
            (0..(shape[1] - 1)) \X (0..(shape[2] - 1)) \X (0..(shape[3] - 1))

Tensor(shape, F(_)) == [shape |-> shape, val |-> [ix \in Idx(shape) |-> F(ix)]]

ZeroAt(ix) == 0
Zeros(shape) == Tensor(shape, ZeroAt)

AllTensors(shape, V) == {[shape |-> shape, val |-> v] : v \in [Idx(shape) -> V]}

SumAll(t) == SumFun(t.val)

\* an attribute not yet assigned
None == [shape |-> <<>>, val |-> <<>>]

----------------------------------------------------------------------------
(* split_data *)

\* the product rounded up
NumTrainCeil(n, r) == (n * r[1] + r[2] - 1) \div r[2]

\* int(np.floor(num_samples * train_ratio)), train_ratio = r[1] / r[2]
NumTrain(n, r) == (n * r[1]) \div r[2]

\* np.random.choice(indices, k, replace=False): every sequence of k distinct
\* elements
Choice(S, k) ==
    {s \in [1..k -> S] : \A a, b \in 1..k : a /= b => s[a] /= s[b]}

Range(s) == {s[i] : i \in DOMAIN s}

\* the dataset: row i of X and of Y
DataX(i) == 10 + i
DataY(i) == i % 3

Ratios == {<<n, d>> : n \in 1..MaxDen, d \in 1..MaxDen} \cap
          {r \in Int \X Int : r[1] <= r[2]}

NoSplit == [num_samples |-> 0, train_ratio |-> <<1, 1>>, train_indices |-> <<>>,
            val_indices |-> {}, X_train |-> <<>>, Y_train |-> <<>>,
            X_val |-> {}, Y_val |-> {}]

split_data ==
    /\ pc = "split"
    /\ LET n == split.num_samples
           indices == 0..(n - 1)
           num_train_samples == NumTrain(n, split.train_ratio)
       IN  \E train_indices \in Choice(indices, num_train_samples) :
             LET val_indices == indices \ Range(train_indices)
             IN  split' = [split EXCEPT
                    !.train_indices = train_indices,
                    !.val_indices = val_indices,
                    !.X_train = [i \in DOMAIN train_indices |->
                                    DataX(train_indices[i])],
                    !.Y_train = [i \in DOMAIN train_indices |->
                                    DataY(train_indices[i])],
                    !.X_val = {<<i, DataX(i)>> : i \in val_indices},
                    !.Y_val = {<<i, DataY(i)>> : i \in val_indices}]
    /\ pc' = "split_done"
    /\ UNCHANGED <<layers, call, tr, main>>

----------------------------------------------------------------------------
(* numpy operations on arrays.  An operation that raises yields Raised(e). *)

Raised(e) == [shape |-> <<-1>>, val |-> e]
IsRaised(t) == t.shape = <<-1>>

Tuple(n, F(_)) ==
    CASE n = 0 -> <<>>
      [] n = 1 -> <<F(1)>>
      [] n = 2 -> <<F(1), F(2)>>
      [] n = 3 -> <<F(1), F(2), F(3)>>

\* broadcasting of two dimensions; -1 when they are incompatible
BDim(a, b) == IF a = b THEN a ELSE IF a = 1 THEN b ELSE IF b = 1 THEN a ELSE -1

\* shape s aligned to the right in n dimensions
PadShape(s, n) ==
    Tuple(n, LAMBDA i : IF i <= n - Len(s) THEN 1 ELSE s[i - (n - Len(s))])

BShape(s1, s2) ==
    LET n == Max(Len(s1), Len(s2))
    IN  Tuple(n, LAMBDA i : BDim(PadShape(s1, n)[i], PadShape(s2, n)[i]))

BOk(s) == \A i \in DOMAIN s : s[i] >= 0

\* the index into an array of shape s that a broadcast index ix reads
BIx(s, ix) ==
    Tuple(Len(s), LAMBDA i : IF s[i] = 1 THEN 0 ELSE ix[i + Len(ix) - Len(s)])

\* elementwise Op with broadcasting (a * b, a - b, a + b)
EW(Op(_, _), t1, t2) ==
    IF IsRaised(t1) THEN t1
    ELSE IF IsRaised(t2) THEN t2
    ELSE LET s == BShape(t1.shape, t2.shape)
         IN  IF ~BOk(s) THEN Raised("ValueError")
             ELSE Tensor(s, LAMBDA ix : Op(t1.val[BIx(t1.shape, ix)],
                                           t2.val[BIx(t2.shape, ix)]))

\* elementwise F
Map(F(_), t) == IF IsRaised(t) THEN t ELSE Tensor(t.shape, LAMBDA ix : F(t.val[ix]))

Sub(a, b) == a - b
Add(a, b) == a + b

\* np.dot / @ of two 2D arrays
Dot(A, B) ==
    IF IsRaised(A) THEN A
    ELSE IF IsRaised(B) THEN B
    ELSE IF A.shape[2] /= B.shape[1] THEN Raised("ValueError")
    ELSE Tensor(<<A.shape[1], B.shape[2]>>,
                LAMBDA ix : SumFun([m \in 0..(A.shape[2] - 1) |->
                               FMul(A.val[<<ix[1], m>>], B.val[<<m, ix[2]>>])]))

\* .T of a 2D array
Transpose(A) ==
    Tensor(<<A.shape[2], A.shape[1]>>, LAMBDA ix : A.val[<<ix[2], ix[1]>>])

\* row-major (C order) offset of index ix in an array of shape s, and back
FlatIndex(s, ix) ==
    CASE Len(s) = 1 -> ix[1]
      [] Len(s) = 2 -> ix[1] * s[2] + ix[2]
      [] Len(s) = 3 -> (ix[1] * s[2] + ix[2]) * s[3] + ix[3]

UnravelColMajor(s, n) ==
    CASE Len(s) = 1 -> <<n>>
      [] Len(s) = 2 -> <<n % s[1], n \div s[1]>>
      [] Len(s) = 3 -> <<n % s[1], (n \div s[1]) % s[2], n \div (s[1] * s[2])>>

Unravel(s, n) ==
    CASE Len(s) = 1 -> <<n>>
      [] Len(s) = 2 -> <<n \div s[2], n % s[2]>>
      [] Len(s) = 3 -> <<n \div (s[2] * s[3]), (n \div s[3]) % s[2], n % s[3]>>

\* t.reshape(s)
Reshape(t, s) ==
    IF IsRaised(t) THEN t
    ELSE IF Prod(t.shape) /= Prod(s) THEN Raised("ValueError")
    ELSE Tensor(s, LAMBDA ix : t.val[Unravel(t.shape, FlatIndex(s, ix))])

\* the length of the slice [i : i + k] of an axis of length n
SliceLen(n, i, k) == Max(0, Min(i + k, n) - Min(i, n))

\* the outcome of a call: how it ended, what it returned, the object after it
Res(status, ret, self) == [status |-> status, ret |-> ret, self |-> self]

\* return ret after `assert cond`
Asserted(cond, ret, self) ==
    IF cond THEN Res("ok", ret, self) ELSE Res("AssertionError", None, self)

Layer(kind) ==
    [kind |-> kind, num_filters |-> 0, filter_size |-> 0,
     input_size |-> 0, output_size |-> 0,
     conv_filter |-> None, bias |-> None,
     input |-> None, input_shape |-> <<>>, output |-> None]

Params(l) == <<l.conv_filter, l.bias>>
Cache(l) == <<l.input, l.input_shape, l.output>>

----------------------------------------------------------------------------
(* ConvolutionLayer *)

ConvolutionLayer(num_filters, filter_size, conv_filter) ==
    [Layer("conv") EXCEPT
        !.num_filters = num_filters,
        !.filter_size = filter_size,
        !.conv_filter = conv_filter,
        !.bias = Zeros(<<num_filters>>)]

\* output[f, i, j] = np.sum(input[i:i+k, j:j+k] * conv_filter[f]) + bias[f]
ConvOutput(self, input) ==
    LET k == self.filter_size
        output_height == input.shape[1] - k + 1
        output_width == input.shape[2] - k + 1
    IN  Tensor(<<self.num_filters, output_height, output_width>>,
               LAMBDA ix :
                 SumFun([ab \in (0..(k - 1)) \X (0..(k - 1)) |->
                     FMul(input.val[<<ix[2] + ab[1], ix[3] + ab[2]>>],
                          self.conv_filter.val[<<ix[1], ab[1], ab[2]>>])])
                 + self.bias.val[<<ix[1]>>])

ConvForward(self, input) ==
    LET output == ConvOutput(self, input)
        k == self.filter_size
    IN  Asserted(output.shape = <<self.num_filters, input.shape[1] - k + 1,
                                input.shape[2] - k + 1>>,
            output,
            [self EXCEPT !.input = input])

\* np.pad(output_error[f, :, :], k - 1)[u, v]
ConvPadded(oe, k, f, u, v) ==
    IF /\ u - (k - 1) \in 0..(oe.shape[2] - 1)
       /\ v - (k - 1) \in 0..(oe.shape[3] - 1)
    THEN oe.val[<<f, u - (k - 1), v - (k - 1)>>]
    ELSE 0

\* np.rot90(conv_filter[f], 2)[p, q]
ConvRot180(self, f, p, q) ==
    self.conv_filter.val[<<f, self.filter_size - 1 - p, self.filter_size - 1 - q>>]

\* np.sum(padded_output_error[i:i+k, j:j+k] * np.rot90(conv_filter[f], 2)),
\* summed over the filters: input_error[i, j]
ConvInputErrorAt(self, oe, i, j) ==
    LET k == self.filter_size
        r == SliceLen(oe.shape[2] + 2 * (k - 1), i, k)
        c == SliceLen(oe.shape[3] + 2 * (k - 1), j, k)
    IN  SumFun([f \in 0..(self.num_filters - 1) |->
            SumFun([ab \in (0..(BDim(r, k) - 1)) \X (0..(BDim(c, k) - 1)) |->
                FMul(ConvPadded(oe, k, f,
                                i + (IF r = 1 THEN 0 ELSE ab[1]),
                                j + (IF c = 1 THEN 0 ELSE ab[2])),
                     ConvRot180(self, f, ab[1], ab[2]))])])

\* filter_error[f] += input[i:i+k, j:j+k] * output_error[f, i, j], over i, j
ConvFilterErrorAt(self, oe, f, a, b) ==
    LET k == self.filter_size
        X == self.input
    IN  SumFun([ij \in (0..(oe.shape[2] - 1)) \X (0..(oe.shape[3] - 1)) |->
            FMul(X.val[<<ij[1] + (IF SliceLen(X.shape[1], ij[1], k) = 1
                                    THEN 0 ELSE a),
                         ij[2] + (IF SliceLen(X.shape[2], ij[2], k) = 1
                                    THEN 0 ELSE b)>>],
                 oe.val[<<f, ij[1], ij[2]>>])])

\* bias_error[f] += output_error[f, i, j], over i, j
ConvBiasErrorAt(oe, f) ==
    SumFun([ij \in (0..(oe.shape[2] - 1)) \X (0..(oe.shape[3] - 1)) |->
                oe.val[<<f, ij[1], ij[2]>>]])

\* how the loops of backward end: output_error[f, :, :] raises IndexError
\* when output_error is not 3D or has no plane f; a window times the kernel,
\* or a patch added to filter_error[f], that does not broadcast raises
\* ValueError in the first pass
ConvLoopStatus(self, oe) ==
    LET k == self.filter_size
        X == self.input
        badWindow ==
            \E i \in 0..(X.shape[1] - 1), j \in 0..(X.shape[2] - 1) :
                \/ BDim(SliceLen(oe.shape[2] + 2 * (k - 1), i, k), k) < 0
                \/ BDim(SliceLen(oe.shape[3] + 2 * (k - 1), j, k), k) < 0
        badPatch ==
            \E i \in 0..(oe.shape[2] - 1), j \in 0..(oe.shape[3] - 1) :
                \/ BDim(SliceLen(X.shape[1], i, k), k) /= k
                \/ BDim(SliceLen(X.shape[2], j, k), k) /= k
    IN  IF Len(oe.shape) /= 3 \/ oe.shape[1] = 0 THEN "IndexError"
        ELSE IF badWindow \/ badPatch THEN "ValueError"
        ELSE IF oe.shape[1] < self.num_filters THEN "IndexError"
        ELSE "ok"

\* an update that ignores the learning rate
ConvUpdatedUnitRate(self, oe, lr) ==
    [self EXCEPT
        !.conv_filter = Tensor(self.conv_filter.shape, LAMBDA ix :
            self.conv_filter.val[ix]
              - ConvFilterErrorAt(self, oe, ix[1], ix[2], ix[3])),
        !.bias = Tensor(self.bias.shape, LAMBDA ix :
            self.bias.val[ix] - ConvBiasErrorAt(oe, ix[1]))]

\* the layer after conv_filter -= lr * filter_error; bias -= lr * bias_error
ConvUpdated(self, oe, lr) ==
    [self EXCEPT
        !.conv_filter = Tensor(self.conv_filter.shape, LAMBDA ix :
            self.conv_filter.val[ix]
              - FMul(lr, ConvFilterErrorAt(self, oe, ix[1], ix[2], ix[3]))),
        !.bias = Tensor(self.bias.shape, LAMBDA ix :
            self.bias.val[ix] - FMul(lr, ConvBiasErrorAt(oe, ix[1])))]

\* the parameters updated before input_error is computed
ConvBackwardUpdateFirst(self, oe, lr) ==
    LET st == ConvLoopStatus(self, oe)
        upd == ConvUpdated(self, oe, lr)
    IN  IF st /= "ok" THEN Res(st, None, self)
        ELSE Res("ok",
                 Tensor(self.input.shape,
                        LAMBDA ix : ConvInputErrorAt(upd, oe, ix[1], ix[2])),
                 upd)

\* input_error is computed from the kernel as it is on entry, then the
\* parameters are updated
ConvBackward(self, oe, lr) ==
    LET st == ConvLoopStatus(self, oe)
    IN  IF st /= "ok" THEN Res(st, None, self)
        ELSE LET input_error ==
                    Tensor(self.input.shape,
                           LAMBDA ix : ConvInputErrorAt(self, oe, ix[1], ix[2]))
             IN  Asserted(input_error.shape = self.input.shape,
                     input_error,
                     ConvUpdated(self, oe, lr))

----------------------------------------------------------------------------
(* ReLULayer *)

ReLULayer == Layer("relu")

ReLUForward(self, input) ==
    LET output == Map(LAMBDA x : Max(x, 0), input)
    IN  Asserted(output.shape = input.shape,
            output,
            [self EXCEPT !.input = input])

ReLUBackward(self, oe, lr) ==
    LET onehot_mat == Map(LAMBDA x : IF x > 0 THEN 1 ELSE 0, self.input)
        input_error == EW(LAMBDA g, m : g * m, oe, onehot_mat)
    IN  IF IsRaised(input_error) THEN Res(input_error.val, None, self)
        ELSE Asserted(input_error.shape = oe.shape,
                 input_error, self)

----------------------------------------------------------------------------
(* MaxPoolingLayer *)

MaxPoolingLayer(filter_size) == [Layer("pool") EXCEPT !.filter_size = filter_size]

\* input[f, i*k:(i+1)*k, j*k:(j+1)*k] in row-major order, as a sequence
PoolRegion(input, k, f, i, j) ==
    LET rows == SliceLen(input.shape[2], i * k, k)
        cols == SliceLen(input.shape[3], j * k, k)
    IN  [n \in 1..(rows * cols) |->
            input.val[<<f, i * k + ((n - 1) \div cols), j * k + ((n - 1) % cols)>>]]

SeqMax(s) == CHOOSE m \in Range(s) : \A x \in Range(s) : x <= m

\* the last position (0-based) of the maximum
ArgMaxLast(s) ==
    CHOOSE n \in 0..(Len(s) - 1) :
        /\ s[n + 1] = SeqMax(s)
        /\ \A m \in (n + 1)..(Len(s) - 1) : s[m + 1] /= SeqMax(s)

\* np.argmax: the first position (0-based) of the maximum
ArgMax(s) ==
    CHOOSE n \in 0..(Len(s) - 1) :
        /\ s[n + 1] = SeqMax(s)
        /\ \A m \in 0..(n - 1) : s[m + 1] /= SeqMax(s)

MaxPoolForward(self, input) ==
    LET k == self.filter_size
        output_height == input.shape[2] \div k
        output_width == input.shape[3] \div k
        output == Tensor(<<input.shape[1], output_height, output_width>>,
                    LAMBDA ix : SeqMax(PoolRegion(input, k, ix[1], ix[2], ix[3])))
    IN  Asserted(output.shape = <<input.shape[1], input.shape[2] \div k,
                                input.shape[3] \div k>>,
            output,
            [self EXCEPT !.input = input])

\* the index of input_error that output_error[f, i, j] is added to:
\* np.unravel_index(np.argmax(region), (k, k)) offset by the block's corner
PoolTarget(self, f, i, j) ==
    LET k == self.filter_size
        n == ArgMax(PoolRegion(self.input, k, f, i, j))
    IN  <<f, i * k + (n \div k), j * k + (n % k)>>

\* how one pass of the loop body ends
PoolPassStatus(self, f, i, j) ==
    LET X == self.input
    IN  IF f >= X.shape[1] THEN "IndexError"
        ELSE IF Len(PoolRegion(X, self.filter_size, f, i, j)) = 0
             THEN "ValueError"
        ELSE IF PoolTarget(self, f, i, j) \notin Idx(X.shape) THEN "IndexError"
        ELSE "ok"

\* how the loop of backward ends: unpacking the shape of an output_error that
\* is not 3D raises ValueError; else the first pass that raises decides
PoolLoopStatus(self, oe) ==
    LET bad == IF Len(oe.shape) /= 3 THEN {}
               ELSE {ix \in Idx(oe.shape) :
                        PoolPassStatus(self, ix[1], ix[2], ix[3]) /= "ok"}
    IN  IF Len(oe.shape) /= 3 THEN "ValueError"
        ELSE IF bad = {} THEN "ok"
        ELSE LET first == CHOOSE ix \in bad : \A o \in bad :
                            FlatIndex(oe.shape, ix) <= FlatIndex(oe.shape, o)
             IN  PoolPassStatus(self, first[1], first[2], first[3])

\* every position holding the block's maximum receives the gradient
MaxPoolBackwardAllMaxima(self, oe, lr) ==
    LET k == self.filter_size
    IN  Res("ok",
            Tensor(self.input.shape, LAMBDA ix :
                LET blk == PoolRegion(self.input, k, ix[1], ix[2] \div k,
                                      ix[3] \div k)
                IN  IF self.input.val[ix] = SeqMax(blk)
                    THEN oe.val[<<ix[1], ix[2] \div k, ix[3] \div k>>] ELSE 0),
            self)

\* ties resolved to the last maximum of the block
MaxPoolBackwardLastMax(self, oe, lr) ==
    LET k == self.filter_size
    IN  Res("ok",
            Tensor(self.input.shape, LAMBDA ix :
                LET blk == PoolRegion(self.input, k, ix[1], ix[2] \div k,
                                      ix[3] \div k)
                    n == ArgMaxLast(blk)
                IN  IF <<ix[2] % k, ix[3] % k>> = <<n \div k, n % k>>
                    THEN oe.val[<<ix[1], ix[2] \div k, ix[3] \div k>>] ELSE 0),
            self)

MaxPoolBackward(self, oe, lr) ==
    LET st == PoolLoopStatus(self, oe)
    IN  IF st /= "ok" THEN Res(st, None, self)
        ELSE LET input_error ==
                    Tensor(self.input.shape, LAMBDA ix :
                        SumFun([o \in {o \in Idx(oe.shape) :
                                        PoolTarget(self, o[1], o[2], o[3]) = ix}
                                  |-> oe.val[o]]))
             IN  Asserted(input_error.shape = self.input.shape,
                     input_error, self)

----------------------------------------------------------------------------
(* FlattenLayer *)

FlattenLayer == Layer("flatten")

\* the entries in column-major (Fortran) order
FlattenedColMajor(input) ==
    Tensor(<<Prod(input.shape)>>,
           LAMBDA ix : input.val[UnravelColMajor(input.shape, ix[1])])

\* input.flatten(): the entries in row-major order
Flattened(input) ==
    Tensor(<<Prod(input.shape)>>, LAMBDA ix : input.val[Unravel(input.shape, ix[1])])

FlattenOutput(input) ==
    Reshape(Flattened(input), <<Prod(input.shape), 1>>)

FlattenForward(self, input) ==
    LET output == FlattenOutput(input)
    IN  Asserted(output.shape =
                 <<input.shape[1] * input.shape[2] * input.shape[3], 1>>,
            output,
            [self EXCEPT !.input_shape = input.shape])

\* the gradient handed back as it came
FlattenBackwardNoReshape(self, oe, lr) ==
    Asserted(oe.shape = self.input_shape, oe, self)

FlattenBackward(self, oe, lr) ==
    LET input_error == Reshape(oe, self.input_shape)
    IN  IF IsRaised(input_error) THEN Res(input_error.val, None, self)
        ELSE Asserted(input_error.shape = self.input_shape,
                 input_error, self)

----------------------------------------------------------------------------
(* FCLayer *)

FCLayer(input_size, output_size, conv_filter, bias) ==
    [Layer("fc") EXCEPT
        !.input_size = input_size,
        !.output_size = output_size,
        !.conv_filter = conv_filter,
        !.bias = bias]

\* self.input = input; self.output = np.dot(conv_filter.T, input) + bias
FCForwardCacheOnly(self, input) ==
    LET output == EW(Add, Dot(Transpose(self.conv_filter), input), self.bias)
    IN  [self EXCEPT !.input = input, !.output = output]

\* a forward that also nudges the bias
FCForwardTouchingBias(self, input) ==
    [FCForwardCacheOnly(self, input) EXCEPT
        !.bias = Map(LAMBDA b : b + 1, self.bias)]

\* the layer after forward
FCForwardSelf(self, input) == FCForwardCacheOnly(self, input)

FCForward(self, input) ==
    LET after == FCForwardSelf(self, input)
    IN  IF IsRaised(after.output)
        THEN Res(after.output.val, None, [after EXCEPT !.output = None])
        ELSE Asserted(after.output.shape = <<self.output_size, 1>>,
                 after.output, after)

\* the bias updated before the products are formed
FCBackwardUpdateFirst(self, oe, lr) ==
    LET new_bias == EW(Sub, self.bias, Map(LAMBDA g : FMul(lr, g), oe))
        biased == IF IsRaised(new_bias) \/ new_bias.shape /= self.bias.shape
                  THEN self ELSE [self EXCEPT !.bias = new_bias]
        input_error == Dot(self.conv_filter, oe)
        conv_filter_error ==
            IF IsRaised(input_error) THEN input_error
            ELSE Dot(self.input, Transpose(oe))
    IN  IF biased = self /\ new_bias /= self.bias THEN Res("ValueError", None, self)
        ELSE IF IsRaised(conv_filter_error)
             THEN Res(conv_filter_error.val, None, biased)
        ELSE Asserted(input_error.shape = self.input.shape,
                 input_error,
                 [biased EXCEPT !.conv_filter =
                    EW(Sub, self.conv_filter,
                       Map(LAMBDA g : FMul(lr, g), conv_filter_error))])

FCBackward(self, oe, lr) ==
    LET input_error == Dot(self.conv_filter, oe)
        conv_filter_error ==
            IF IsRaised(input_error) THEN input_error
            ELSE Dot(self.input, Transpose(oe))
        new_filter == EW(Sub, self.conv_filter,
                         Map(LAMBDA g : FMul(lr, g), conv_filter_error))
        new_bias == EW(Sub, self.bias, Map(LAMBDA g : FMul(lr, g), oe))
    IN  IF IsRaised(conv_filter_error) THEN Res(conv_filter_error.val, None, self)
        ELSE IF IsRaised(new_filter) \/ new_filter.shape /= self.conv_filter.shape
             THEN Res("ValueError", None, self)
        ELSE IF IsRaised(new_bias) \/ new_bias.shape /= self.bias.shape
             THEN Res("ValueError", None, [self EXCEPT !.conv_filter = new_filter])
        ELSE Asserted(input_error.shape = self.input.shape,
                 input_error,
                 [self EXCEPT !.conv_filter = new_filter, !.bias = new_bias])

----------------------------------------------------------------------------
(* SoftmaxLayer *)

SoftmaxLayer == Layer("softmax")

\* e^(-n) for n = 0, 1, ..., in units of 1/Scale
ExpTable == <<1000, 368, 135, 50, 18, 7, 2, 1>>

\* np.exp(x) for x <= 0: e^(-n) from the table times the Taylor polynomial of
\* e^(-f), where -x = n + f, 0 <= f < 1
FExp(x) ==
    LET n == (-x) \div Scale
        f == (-x) % Scale
        f2 == FMul(f, f)
        poly == Scale - f + (f2 \div 2) - (FMul(f2, f) \div 6)
                  + (FMul(f2, f2) \div 24)
    IN  FMul(IF n < Len(ExpTable) THEN ExpTable[n + 1] ELSE 0, poly)

\* np.max(input, axis=0) of a 2D array
ColMax(input) ==
    Tensor(<<input.shape[2]>>, LAMBDA ix :
        CHOOSE m \in {input.val[<<i, ix[1]>>] : i \in 0..(input.shape[1] - 1)} :
            \A i \in 0..(input.shape[1] - 1) : input.val[<<i, ix[1]>>] <= m)

SoftmaxOutput(input) ==
    LET e == Map(FExp, EW(Sub, input, ColMax(input)))
        total == SumAll(e)
    IN  Map(LAMBDA v : FDiv(v, total), e)

SoftmaxForward(self, input) ==
    LET output == SoftmaxOutput(input)
    IN  Asserted(output.shape = input.shape,
            output,
            [self EXCEPT !.output = output])

\* self.output*output_error - self.output.T@output_error * self.output
SoftmaxBackward(self, oe, lr) ==
    LET input_error ==
            EW(Sub, EW(FMul, self.output, oe),
                    EW(FMul, Dot(Transpose(self.output), oe), self.output))
    IN  IF IsRaised(input_error) THEN Res(input_error.val, None, self)
        ELSE Asserted(input_error.shape = oe.shape,
                 input_error, self)

----------------------------------------------------------------------------
(* The common interface: layer.forward(input), layer.backward(oe, lr) *)

Forward(self, input) ==
    CASE self.kind = "conv" -> ConvForward(self, input)
      [] self.kind = "relu" -> ReLUForward(self, input)
      [] self.kind = "pool" -> MaxPoolForward(self, input)
      [] self.kind = "flatten" -> FlattenForward(self, input)
      [] self.kind = "fc" -> FCForward(self, input)
      [] self.kind = "softmax" -> SoftmaxForward(self, input)

Backward(self, oe, lr) ==
    CASE self.kind = "conv" -> ConvBackward(self, oe, lr)
      [] self.kind = "relu" -> ReLUBackward(self, oe, lr)
      [] self.kind = "pool" -> MaxPoolBackward(self, oe, lr)
      [] self.kind = "flatten" -> FlattenBackward(self, oe, lr)
      [] self.kind = "fc" -> FCBackward(self, oe, lr)
      [] self.kind = "softmax" -> SoftmaxBackward(self, oe, lr)

----------------------------------------------------------------------------
(* One layer driven alone: construct it, call forward(x), call backward(g, lr) *)

\* an array given by its rows, entries in whole units
Mat(rows) ==
    Tensor(<<Len(rows), Len(rows[1])>>,
           LAMBDA ix : rows[ix[1] + 1][ix[2] + 1] * Scale)

\* kernels given plane by plane
Kernels(planes) ==
    Tensor(<<Len(planes), Len(planes[1]), Len(planes[1][1])>>,
           LAMBDA ix : planes[ix[1] + 1][ix[2] + 1][ix[3] + 1] * Scale)

\* entries 1, 2, 3, ... in row-major order
Iota(shape) == Tensor(shape, LAMBDA ix : (FlatIndex(shape, ix) + 1) * Scale)

Filled(shape, v) == Tensor(shape, LAMBDA ix : v)

XVals == {-Scale, 0, Scale}
XVals2 == {0, Scale}
GVals == {-Scale, 2 * Scale}
Rates == {0, Scale}

LayersUnderTest ==
    {ConvolutionLayer(1, 1, Kernels(<< <<<<1>>>> >>)),
     ConvolutionLayer(1, 1, Kernels(<< <<<<-2>>>> >>)),
     ConvolutionLayer(1, 2, Kernels(<< <<<<1, 2>>, <<0, -1>>>> >>)),
     ConvolutionLayer(2, 1, Kernels(<< <<<<1>>>>, <<<<2>>>> >>)),
     ConvolutionLayer(2, 2, Kernels(<< <<<<1, 0>>, <<2, -1>>>>,
                                      <<<<0, 1>>, <<1, 1>>>> >>)),
     ReLULayer,
     MaxPoolingLayer(1),
     MaxPoolingLayer(2),
     FlattenLayer,
     FCLayer(2, 2, Mat(<< <<1, 0>>, <<2, -1>> >>), Mat(<< <<1>>, <<-1>> >>)),
     FCLayer(3, 2, Mat(<< <<1, 0>>, <<2, -1>>, <<0, 1>> >>), Mat(<< <<0>>, <<1>> >>)),
     SoftmaxLayer}

\* the inputs forward is called with
TestInputs(self) ==
    CASE self.kind = "conv" /\ self.num_filters = 1 /\ self.filter_size = 1 ->
            AllTensors(<<1, 1>>, XVals \cup {5 * Scale})
              \cup AllTensors(<<2, 2>>, XVals)
      [] self.kind = "conv" /\ self.num_filters = 1 /\ self.filter_size = 2 ->
            AllTensors(<<2, 2>>, XVals) \cup AllTensors(<<2, 3>>, XVals)
              \cup AllTensors(<<3, 3>>, XVals2)
      [] self.kind = "conv" /\ self.num_filters = 2 /\ self.filter_size = 1 ->
            AllTensors(<<1, 2>>, XVals)
      [] self.kind = "conv" /\ self.num_filters = 2 /\ self.filter_size = 2 ->
            AllTensors(<<2, 2>>, XVals) \cup AllTensors(<<3, 2>>, XVals2)
      [] self.kind = "relu" ->
            AllTensors(<<1, 2, 2>>, XVals) \cup AllTensors(<<2, 1, 1>>, XVals)
              \cup AllTensors(<<2, 1>>, XVals)
      [] self.kind = "pool" /\ self.filter_size = 1 ->
            AllTensors(<<1, 1, 2>>, XVals)
      [] self.kind = "pool" /\ self.filter_size = 2 ->
            AllTensors(<<1, 2, 2>>, XVals) \cup AllTensors(<<1, 2, 4>>, XVals2)
              \cup AllTensors(<<2, 2, 2>>, XVals2)
              \cup AllTensors(<<1, 4, 2>>, XVals2)
      [] self.kind = "flatten" ->
            AllTensors(<<1, 2, 2>>, XVals) \cup AllTensors(<<2, 1, 2>>, XVals)
              \cup {Iota(<<2, 2, 2>>), Iota(<<2, 3, 2>>), Iota(<<3, 1, 2>>)}
      [] self.kind = "fc" -> AllTensors(<<self.input_size, 1>>, XVals)
      [] self.kind = "softmax" ->
            AllTensors(<<2, 1>>, XVals) \cup AllTensors(<<3, 1>>, XVals)

\* the gradients backward is called with: the shape of forward's output
TestGradients(out) == AllTensors(out.shape, GVals) \cup {out}

NoCall == [op |-> "none"]
NoTrain == [step |-> 0]
NoMain == [epoch |-> 0]

InitLayer ==
    /\ pc = "new"
    /\ \E l \in LayersUnderTest : layers = <<l>>
    /\ call = NoCall
    /\ split = NoSplit
    /\ tr = NoTrain
    /\ main = NoMain

TestForward ==
    /\ pc = "new"
    /\ \E x \in TestInputs(layers[1]) :
          LET r == Forward(layers[1], x)
          IN  /\ layers' = <<r.self>>
              /\ call' = [op |-> "forward", x |-> x, pre |-> layers[1],
                          status |-> r.status, out |-> r.ret]
    /\ pc' = "fwd"
    /\ UNCHANGED <<split, tr, main>>

BackwardCall(oe, lr) ==
    LET r == Backward(layers[1], oe, lr)
    IN  /\ layers' = <<r.self>>
        /\ call' = [op |-> "backward", x |-> call.x, out |-> call.out,
                    oe |-> oe, lr |-> lr, pre |-> layers[1],
                    status |-> r.status, ret |-> r.ret]
        /\ pc' = "bwd"
        /\ UNCHANGED <<split, tr, main>>

TestBackward ==
    /\ pc = "fwd"
    /\ call.status = "ok"
    /\ \E oe \in TestGradients(call.out), lr \in Rates : BackwardCall(oe, lr)

NextLayer == TestForward \/ TestBackward

SpecLayer == InitLayer /\ [][NextLayer]_vars

\* each dimension (or index) raised by one
OneMore(ix) == Tuple(Len(ix), LAMBDA i : ix[i] + 1)

\* backward called with an output_error that is not of the shape of the
\* output the last forward produced: as many dimensions, each from 1 to one
\* more than that of the output
TestBackwardMismatched ==
    /\ pc = "fwd"
    /\ call.status = "ok"
    /\ \E ix \in Idx(OneMore(call.out.shape)), lr \in Rates :
          /\ OneMore(ix) /= call.out.shape
          /\ BackwardCall(Iota(OneMore(ix)), lr)

NextMismatch == TestForward \/ TestBackwardMismatched

SpecMismatch == InitLayer /\ [][NextMismatch]_vars

----------------------------------------------------------------------------
(* train(image, label, layers, lr=.005), called in a loop on one layer list *)

\* lr=.005, in units of 1/Scale
LearningRate == 5

\* np.log(p) for 0 < p <= 1: the inverse of FExp
FLog(p) == -(CHOOSE t \in 0..(8 * Scale) :
                /\ FExp(-t) <= p
                /\ \A u \in 0..(t - 1) : FExp(-u) > p)

\* (image / 255) - 0.5, image an array of integer pixels
Normalised(image) ==
    Tensor(image.shape, LAMBDA ix : ((image.val[ix] * Scale) \div 255) - (Scale \div 2))

\* output_error = np.zeros(out.shape); output_error[label] = -1/out[label]
InitialDifference(out, label) ==
    Tensor(out.shape, LAMBDA ix :
        IF ix[1] = label THEN -FDiv(Scale, out.val[ix]) ELSE 0)

\* the order of `for layer in layers`
InOrder(n) == [i \in 1..n |-> i]

\* the backward loop without reversed(): first layer first
NotReversed(n) == [i \in 1..n |-> i]

\* the order of `for layer in reversed(layers)`
Reversed(n) == [i \in 1..n |-> n + 1 - i]

\* -np.sum(np.log(out[label]))
Loss(out, label) ==
    -SumFun([j \in 0..(out.shape[2] - 1) |-> FLog(out.val[<<label, j>>])])

\* 1 if np.argmax(out) == label else 0
Acc(out, label) ==
    IF ArgMax([n \in 1..Prod(out.shape) |-> out.val[Unravel(out.shape, n - 1)]])
         = label
    THEN 1 ELSE 0

\* integer pixel images and their labels
Pixels(rows) ==
    Tensor(<<Len(rows), Len(rows[1])>>, LAMBDA ix : rows[ix[1] + 1][ix[2] + 1])

Samples ==
    {[image |-> Pixels(<< <<0, 255, 0>>, <<255, 255, 0>>, <<0, 128, 0>> >>),
      label |-> 0],
     [image |-> Pixels(<< <<255, 0, 64>>, <<0, 0, 255>>, <<32, 255, 255>> >>),
      label |-> 1],
     [image |-> Pixels(<< <<128, 128, 128>>, <<128, 128, 128>>, <<128, 128, 128>> >>),
      label |-> 1],
     [image |-> Pixels(<< <<0, 0, 0>>, <<0, 255, 200>>, <<0, 200, 255>> >>),
      label |-> 0]}

\* a tensor of kernels given in units of 1/Scale
Milli(planes) ==
    Tensor(<<Len(planes), Len(planes[1]), Len(planes[1][1])>>,
           LAMBDA ix : planes[ix[1] + 1][ix[2] + 1][ix[3] + 1])
MilliMat(rows) ==
    Tensor(<<Len(rows), Len(rows[1])>>, LAMBDA ix : rows[ix[1] + 1][ix[2] + 1])

\* layers = [conv, relu, pool, flatten, fc, softmax] for 3x3 images and two
\* classes: ConvolutionLayer(2, 2), MaxPoolingLayer(2), FCLayer(1 * 1 * 2, 2),
\* with the random initial parameters drawn from a few
InitialLayerLists ==
    {<<ConvolutionLayer(2, 2, K), ReLULayer, MaxPoolingLayer(2), FlattenLayer,
       FCLayer(2, 2, W, MilliMat(<< <<-120>>, <<310>> >>)), SoftmaxLayer>> :
        K \in {Milli(<< <<<<250, -125>>, <<375, 60>>>>,
                        <<<<-200, 300>>, <<150, -50>>>> >>),
               Milli(<< <<<<-310, 240>>, <<20, 180>>>>,
                        <<<<90, 410>>, <<-260, 130>>>> >>)},
        W \in {MilliMat(<< <<400, -300>>, <<-250, 450>> >>)}}

InitTrain ==
    /\ pc = "loop"
    /\ layers \in InitialLayerLists
    /\ call = NoCall
    /\ split = NoSplit
    /\ tr = NoTrain
    /\ main = NoMain

\* the driver calls train(im, label, layers); train normalises the image
TrainCall ==
    /\ pc = "loop"
    /\ tr.step < MaxSteps
    /\ \E sample \in Samples :
          tr' = [step |-> tr.step + 1, image |-> sample.image,
                 label |-> sample.label, out |-> Normalised(sample.image),
                 output_error |-> None, i |-> 1, loss |-> 0, acc |-> 0,
                 trace |-> <<>>, written |-> <<>>]
    /\ pc' = "forward"
    /\ UNCHANGED <<split, layers, call, main>>

\* one pass of `for layer in layers: out = layer.forward(out)`
TrainForward ==
    /\ pc = "forward"
    /\ LET n == InOrder(Len(layers))[tr.i]
           r == Forward(layers[n], tr.out)
       IN  /\ layers' = [layers EXCEPT ![n] = r.self]
           /\ call' = [op |-> "forward", idx |-> n, pre |-> layers[n],
                       status |-> r.status]
           /\ tr' = [tr EXCEPT !.out = r.ret, !.i = tr.i + 1,
                               !.trace = Append(tr.trace, <<"forward", n>>),
                               !.written = Append(tr.written, Cache(r.self))]
           /\ pc' = IF r.status /= "ok" THEN "raised"
                    ELSE IF tr.i = Len(layers) THEN "difference" ELSE "forward"
    /\ UNCHANGED <<split, main>>

\* Calculate initial difference
TrainDifference ==
    /\ pc = "difference"
    /\ tr' = [tr EXCEPT !.output_error = InitialDifference(tr.out, tr.label),
                        !.i = 1]
    /\ pc' = "backward"
    /\ UNCHANGED <<split, layers, call, main>>

\* one pass of
\* `for layer in reversed(layers): output_error = layer.backward(output_error, lr)`
TrainBackward ==
    /\ pc = "backward"
    /\ LET n == Reversed(Len(layers))[tr.i]
           r == Backward(layers[n], tr.output_error, LearningRate)
       IN  /\ layers' = [layers EXCEPT ![n] = r.self]
           /\ call' = [op |-> "backward", idx |-> n, pre |-> layers[n],
                       status |-> r.status]
           /\ tr' = [tr EXCEPT !.output_error = r.ret, !.i = tr.i + 1,
                               !.trace = Append(tr.trace, <<"backward", n>>)]
           /\ pc' = IF r.status /= "ok" THEN "raised"
                    ELSE IF tr.i = Len(layers) THEN "loss" ELSE "backward"
    /\ UNCHANGED <<split, main>>

\* Calculate loss; return loss, acc
TrainReturn ==
    /\ pc = "loss"
    /\ tr' = [tr EXCEPT !.loss = Loss(tr.out, tr.label),
                        !.acc = Acc(tr.out, tr.label)]
    /\ pc' = "loop"
    /\ UNCHANGED <<split, layers, call, main>>

NextTrain ==
    \/ TrainCall
    \/ TrainForward
    \/ TrainDifference
    \/ TrainBackward
    \/ TrainReturn

SpecTrain == InitTrain /\ [][NextTrain]_vars

----------------------------------------------------------------------------
(* The training loop of __main__.  One call of train() is taken here as   *)
(* what it returns, (loss, acc); the shuffle permutes images the loop     *)
(* never looks at, so it leaves nothing in the state.                     *)

Epochs == 3      \* for epoch in range(3)
Window == 100    \* i % 100, loss / 100
PrintAt == 99    \* i % 100 == 99

\* a softmax output over two classes, 0.9 and 0.1
ProbOut == Tensor(<<2, 1>>, LAMBDA ix : IF ix[1] = 0 THEN 900 ELSE 100)

\* what train() returns on that output, for either label: loss, acc
TrainResults ==
    {[loss |-> Loss(ProbOut, label), acc |-> Acc(ProbOut, label)] :
        label \in {0, 1}}

\* len(train_images): no full window, exactly one, and the most the model takes
TrainSetSizes == {PrintAt, Window, MaxImages}

\* '%.3f' % (loss / 100), in units of 1/Scale
AverageLoss(loss) == (2 * loss + Window) \div (2 * Window)

NoLine == [kind |-> "none"]

\* print('--- Epoch %d ---' % (epoch + 1))
EpochLine(epoch) == [kind |-> "epoch", epoch |-> epoch + 1]

\* print('[Step %d] Past 100 steps: Average Loss %.3f | Accuracy: %d%%' % ...)
\* calls is not printed: the number of train() calls the sums are made of
StepLine(m) ==
    [kind |-> "step", step |-> m.i + 1, loss |-> AverageLoss(m.loss),
     accuracy |-> m.num_correct, calls |-> m.calls]

\* the script at `for epoch in range(3)`, train_images split off and loaded
InitMain ==
    /\ pc = "epochs"
    /\ \E n \in TrainSetSizes :
          main = [n |-> n, epoch |-> -1, i |-> 0, loss |-> 0, num_correct |-> 0,
                  calls |-> 0, line |-> NoLine]
    /\ layers = <<>>
    /\ call = NoCall
    /\ split = NoSplit
    /\ tr = NoTrain

\* the next pass of `for epoch in range(3)`: header line, shuffle, loss = 0,
\* num_correct = 0, and the inner loop started; or the end of the script
MainEpoch ==
    /\ pc = "epochs"
    /\ IF main.epoch + 1 < Epochs
       THEN /\ main' = [main EXCEPT !.epoch = @ + 1, !.i = 0, !.loss = 0,
                                    !.num_correct = 0, !.calls = 0,
                                    !.line = EpochLine(main.epoch + 1)]
            /\ pc' = "enumerate"
       ELSE /\ main' = [main EXCEPT !.line = NoLine]
            /\ pc' = "exit"
    /\ UNCHANGED <<split, layers, call, tr>>

\* the head of the loop body: if i % 100 == 99, print and reset
MainPrint ==
    /\ pc = "enumerate"
    /\ main.i < main.n
    /\ main' = IF main.i % Window = PrintAt
               THEN [main EXCEPT !.line = StepLine(main), !.loss = 0,
                                 !.num_correct = 0, !.calls = 0]
               ELSE [main EXCEPT !.line = NoLine]
    /\ pc' = "train"
    /\ UNCHANGED <<split, layers, call, tr>>

\* l, acc = train(im, label, layers); loss += l; num_correct += acc
MainTrain ==
    /\ pc = "train"
    /\ \E r \in TrainResults :
          main' = [main EXCEPT !.loss = @ + r.loss, !.num_correct = @ + r.acc,
                               !.calls = @ + 1, !.i = @ + 1, !.line = NoLine]
    /\ pc' = "enumerate"
    /\ UNCHANGED <<split, layers, call, tr>>

\* enumerate(zip(train_images, train_labels)) is exhausted
MainEpochEnd ==
    /\ pc = "enumerate"
    /\ main.i = main.n
    /\ main' = [main EXCEPT !.line = NoLine]
    /\ pc' = "epochs"
    /\ UNCHANGED <<split, layers, call, tr>>

NextMain ==
    \/ MainEpoch
    \/ MainPrint
    \/ MainTrain
    \/ MainEpochEnd

SpecMain == InitMain /\ [][NextMain]_vars

----------------------------------------------------------------------------
(* Claims about one layer, under SpecLayer *)

IsBackwardOf(kind) == call.op = "backward" /\ call.pre.kind = kind

\* C2: for each of the six layers, forward(x) on a valid x passes its shape
\* assertion, and backward with an output_error of the shape of forward's
\* output passes its assertion and returns an input_error of the shape of x.
C2_ShapeRoundTrip ==
    /\ call.op = "forward" => call.status = "ok"
    /\ (call.op = "backward" /\ call.oe.shape = call.out.shape) =>
          /\ call.status = "ok"
          /\ call.ret.shape = call.x.shape

\* a 2x2 kernel on a 3x3 input: the 1x2x2 gradient comes back as 3x3
C2_Witness ==
    /\ IsBackwardOf("conv")
    /\ call.pre.filter_size = 2
    /\ call.x.shape = <<3, 3>>
    /\ call.oe.shape = <<1, 2, 2>>
    /\ call.status = "ok"
    /\ call.ret.shape = <<3, 3>>

\* C4: MaxPoolingLayer, window dividing both spatial dimensions: the entries
\* of the input_error returned by backward(g) sum to the sum of the entries
\* of g, ties inside a block included.
C4_PoolMassConserved ==
    (IsBackwardOf("pool") /\ call.status = "ok") =>
        SumAll(call.ret) = SumAll(call.oe)

\* a block with all four entries tied and a nonzero gradient
C4_Witness ==
    /\ IsBackwardOf("pool")
    /\ call.pre.filter_size = 2
    /\ call.x = Filled(<<1, 2, 2>>, Scale)
    /\ call.oe = Filled(<<1, 1, 1>>, 2 * Scale)
    /\ call.status = "ok"

\* C5: FlattenLayer: forward(x) of a (channels, height, width) tensor is a
\* column vector of length channels*height*width with the entries of x in
\* row-major order, and backward of that very vector returns x.
C5_FlattenInverse ==
    /\ (call.op = "forward" /\ call.pre.kind = "flatten") =>
          LET s == call.x.shape
          IN  /\ call.out.shape = <<s[1] * s[2] * s[3], 1>>
              /\ \A c \in 0..(s[1] - 1), i \in 0..(s[2] - 1), j \in 0..(s[3] - 1) :
                    call.out.val[<<(c * s[2] + i) * s[3] + j, 0>>]
                        = call.x.val[<<c, i, j>>]
    /\ (IsBackwardOf("flatten") /\ call.oe = call.out) =>
          /\ call.status = "ok"
          /\ call.ret = call.x

\* the round trip of a 2x3x2 tensor with twelve distinct entries
C5_Witness ==
    /\ IsBackwardOf("flatten")
    /\ call.x = Iota(<<2, 3, 2>>)
    /\ call.oe = call.out
    /\ call.status = "ok"

IsPassThrough(l) ==
    /\ l.kind = "conv"
    /\ l.num_filters = 1
    /\ l.filter_size = 1
    /\ l.conv_filter = Kernels(<< <<<<1>>>> >>)
    /\ l.bias = Zeros(<<1>>)

\* C6: a ConvolutionLayer with one 1x1 kernel [[1]] and bias 0 passes x
\* through as a single output plane, and backward(g, 0) returns g's plane and
\* leaves kernel and bias as they were.
C6_ConvPassThrough ==
    /\ (call.op = "forward" /\ IsPassThrough(call.pre)) =>
          /\ call.out.shape = <<1>> \o call.x.shape
          /\ \A ix \in Idx(call.x.shape) :
                call.out.val[<<0>> \o ix] = call.x.val[ix]
          /\ Params(layers[1]) = Params(call.pre)
    /\ (IsBackwardOf("conv") /\ IsPassThrough(call.pre) /\ call.lr = 0) =>
          /\ call.status = "ok"
          /\ call.ret.shape = call.x.shape
          /\ \A ix \in Idx(call.x.shape) :
                call.ret.val[ix] = call.oe.val[<<0>> \o ix]
          /\ Params(layers[1]) = Params(call.pre)

\* input [[5]], output_error [[2]], learning rate 0: input_error [[2]]
C6_Witness ==
    /\ IsBackwardOf("conv")
    /\ IsPassThrough(call.pre)
    /\ call.x = Mat(<< <<5>> >>)
    /\ call.out = Kernels(<< <<<<5>>>> >>)
    /\ call.oe = Kernels(<< <<<<2>>>> >>)
    /\ call.lr = 0
    /\ call.ret = Mat(<< <<2>> >>)

\* the first position, in row-major order, of block (i, j) of channel f
\* holding the block's maximum
FirstMaxOfBlock(x, k, f, i, j) ==
    LET blk == {<<a, b>> \in (0..(k - 1)) \X (0..(k - 1)) : TRUE}
        v(p) == x.val[<<f, i * k + p[1], j * k + p[2]>>]
        isMax(p) == \A q \in blk : v(q) <= v(p)
    IN  CHOOSE p \in blk :
            /\ isMax(p)
            /\ \A q \in blk :
                  (isMax(q) /\ q /= p) => (p[1] < q[1] \/ (p[1] = q[1] /\ p[2] < q[2]))

\* C8: MaxPoolingLayer.backward gives g[f,i,j] to the first position, in
\* row-major order, holding the maximum of block (i,j) of channel f of the
\* cached input, and zero to every other position of the block, ties included.
C8_PoolRoutesToFirstMax ==
    (IsBackwardOf("pool") /\ call.status = "ok") =>
        LET k == call.pre.filter_size
        IN  \A o \in Idx(call.oe.shape) :
              \A p \in (0..(k - 1)) \X (0..(k - 1)) :
                call.ret.val[<<o[1], o[2] * k + p[1], o[3] * k + p[2]>>]
                  = IF p = FirstMaxOfBlock(call.x, k, o[1], o[2], o[3])
                    THEN call.oe.val[o] ELSE 0

\* a block whose maximum is held by its second and fourth entries
C8_Witness ==
    /\ IsBackwardOf("pool")
    /\ call.pre.filter_size = 2
    /\ call.x = Kernels(<< <<<<0, 1>>, <<-1, 1>>>> >>)
    /\ call.oe = Filled(<<1, 1, 1>>, 2 * Scale)
    /\ call.ret = Kernels(<< <<<<0, 2>>, <<0, 0>>>> >>)

\* the transpose of the forward cross-correlation, applied to g with kernel K
TransposedCorrelation(g, K, i, j) ==
    SumFun([fab \in {t \in Idx(K.shape) :
                        /\ i - t[2] \in 0..(g.shape[2] - 1)
                        /\ j - t[3] \in 0..(g.shape[3] - 1)} |->
                FMul(g.val[<<fab[1], i - fab[2], j - fab[3]>>], K.val[fab])])

\* C9: ConvolutionLayer.backward(g, lr) returns the transpose of the forward
\* cross-correlation applied to g with the kernel as it was before the call:
\* input_error[i,j] is the sum of g[f,i-a,j-b] * kernel_before[f,a,b] over the
\* filters f and the offsets (a,b) with (i-a,j-b) inside the output plane; and
\* the sum of (forward(x) - bias) * g equals the sum of x * input_error.
C9_ConvBackwardIsTranspose ==
    (IsBackwardOf("conv") /\ call.status = "ok") =>
        LET K == call.pre.conv_filter
            b == call.pre.bias
        IN  /\ \A ix \in Idx(call.x.shape) :
                  call.ret.val[ix] = TransposedCorrelation(call.oe, K, ix[1], ix[2])
            /\ SumFun([o \in Idx(call.out.shape) |->
                          FMul(call.out.val[o] - b.val[<<o[1]>>], call.oe.val[o])])
                 = SumFun([ix \in Idx(call.x.shape) |->
                          FMul(call.x.val[ix], call.ret.val[ix])])

\* two 2x2 filters, a nonzero learning rate, and a kernel that the call changed
C9_Witness ==
    /\ IsBackwardOf("conv")
    /\ call.pre.num_filters = 2
    /\ call.pre.filter_size = 2
    /\ call.x.shape = <<3, 2>>
    /\ call.lr = Scale
    /\ layers[1].conv_filter /= call.pre.conv_filter
    /\ call.ret /= Zeros(<<3, 2>>)

----------------------------------------------------------------------------
(* Mismatched gradients, under SpecMismatch *)

IsMismatched == call.op = "backward" /\ call.oe.shape /= call.out.shape

\* C3 as claimed (any exception counted as the failing assertion): backward
\* with an output_error of another shape than the last forward's output does
\* not return, and applies no parameter update.
C3_MismatchAlwaysHalts ==
    IsMismatched =>
        /\ call.status /= "ok"
        /\ Params(layers[1]) = Params(call.pre)

\* C3 amended: backward with an output_error of as many dimensions but
\* another shape than the last forward's output halts only in some cases.
\* When it raises (ValueError or IndexError from numpy, or the layer's
\* assertion) nothing is returned and no parameter has been updated; FCLayer
\* always raises ValueError; only ReLULayer ever fails its assertion.  When
\* it returns, the mismatch went unnoticed: the result has the shape the
\* layer's own assertion compares (the cached input's for ConvolutionLayer,
\* MaxPoolingLayer and FlattenLayer, output_error's for ReLULayer and
\* SoftmaxLayer) and is passed on, and ConvolutionLayer has applied its update.
C3_MismatchOutcome ==
    IsMismatched =>
        LET kind == call.pre.kind
        IN  /\ call.status \in {"ok", "AssertionError", "ValueError", "IndexError"}
            /\ call.status /= "ok" =>
                  /\ call.ret = None
                  /\ Params(layers[1]) = Params(call.pre)
            /\ kind = "fc" => call.status = "ValueError"
            /\ call.status = "AssertionError" => kind = "relu"
            /\ call.status = "ok" =>
                  /\ kind \in {"conv", "pool", "flatten"} =>
                        call.ret.shape = call.x.shape
                  /\ kind \in {"relu", "softmax"} =>
                        call.ret.shape = call.oe.shape
                  /\ kind = "conv" =>
                        layers[1] = ConvUpdated(call.pre, call.oe, call.lr)

\* a one-filter ConvolutionLayer given two planes of gradient: backward
\* returns and the kernel has moved
C3_Witness ==
    /\ IsMismatched
    /\ call.pre.kind = "conv"
    /\ call.pre.num_filters = 1
    /\ call.oe.shape[1] = 2
    /\ call.status = "ok"
    /\ layers[1].conv_filter /= call.pre.conv_filter

----------------------------------------------------------------------------
(* Claims about train() on a shared layer list, under SpecTrain *)

ParameterFree == {"relu", "pool", "flatten", "softmax"}

\* what __init__ sets besides the parameters
Config(l) == <<l.kind, l.num_filters, l.filter_size, l.input_size, l.output_size>>

C7_Step ==
    LET OthersUntouched(n) ==
            \A m \in DOMAIN layers : m /= n => layers'[m] = layers[m]
    IN  /\ pc = "forward" =>
              /\ OthersUntouched(call'.idx)
              /\ Params(layers'[call'.idx]) = Params(layers[call'.idx])
              /\ Config(layers'[call'.idx]) = Config(layers[call'.idx])
        /\ pc = "backward" =>
              /\ OthersUntouched(call'.idx)
              /\ layers[call'.idx].kind \in ParameterFree =>
                    layers'[call'.idx] = layers[call'.idx]
        /\ pc \notin {"forward", "backward"} => layers' = layers

\* C7: a layer's forward leaves every layer's weights and bias as they were
\* and overwrites only its own cache; backward of ReLU, MaxPooling, Flatten
\* and Softmax changes no state; only the backward of ConvolutionLayer and of
\* FCLayer changes weights and bias, and only its own layer's; nothing else
\* in train() touches a layer.
C7_ParametersChangeOnlyInBackward == [][C7_Step]_vars

\* one train() call done: the kernels and the dense weights have both moved
C7_Witness ==
    /\ pc = "loop"
    /\ tr.step = 1
    /\ call.op = "backward"
    /\ \A L \in InitialLayerLists :
          /\ Params(layers[1]) /= Params(L[1])
          /\ layers[5].conv_filter /= L[5].conv_filter
          /\ layers[5].bias /= L[5].bias

\* the calls of one train() on n layers: forward 1..n, then backward n..1
ExpectedCalls(n) ==
    [k \in 1..(2 * n) |->
        IF k <= n THEN <<"forward", k>> ELSE <<"backward", 2 * n + 1 - k>>]

\* C10: every train() call runs forward of layers 1..N in list order, then
\* backward of layers N..1, each once, and is through with them before the
\* next call starts; at a layer's backward its cache is the one this call's
\* forward wrote; the initial output gradient is zero except at the true
\* label, where it is -1 / out[label].
C10_TrainOrder ==
    tr.step >= 1 =>
        LET N == Len(layers)
            E == ExpectedCalls(N)
        IN  /\ pc /= "raised"
            /\ Len(tr.trace) <= 2 * N
            /\ \A k \in 1..Len(tr.trace) : tr.trace[k] = E[k]
            /\ pc = "forward" => Len(tr.trace) < N
            /\ pc = "difference" => Len(tr.trace) = N
            /\ pc = "backward" => Len(tr.trace) \in N..(2 * N - 1)
            /\ pc \in {"loss", "loop"} => tr.trace = E
            /\ (call.op = "backward" /\ pc /= "forward") =>
                  Cache(call.pre) = tr.written[call.idx]
            /\ (pc = "backward" /\ Len(tr.trace) = N) =>
                  /\ tr.output_error.shape = tr.out.shape
                  /\ \A ix \in Idx(tr.out.shape) :
                        LET q == tr.output_error.val[ix]
                            p == tr.out.val[ix]
                        IN  IF ix[1] /= tr.label THEN q = 0
                            ELSE /\ q < 0
                                 /\ (-q) * p <= Scale * Scale
                                 /\ Scale * Scale < (1 - q) * p

\* the second train() call on the same layers is through its backward passes
C10_Witness ==
    /\ pc = "loss"
    /\ tr.step = 2
    /\ tr.trace = ExpectedCalls(6)
    /\ call.op = "backward"
    /\ call.idx = 1
    /\ call.pre.input = Normalised(tr.image)

InitSplit ==
    /\ pc = "split"
    /\ \E n \in 1..MaxN, r \in Ratios :
          split = [NoSplit EXCEPT !.num_samples = n, !.train_ratio = r]
    /\ layers = <<>>
    /\ call = NoCall
    /\ tr = NoTrain
    /\ main = NoMain

NextSplit == split_data

SpecSplit == InitSplit /\ [][NextSplit]_vars

\* C1: after split_data the train indices are floor(N*r) distinct indices, the
\* validation indices are the other N - floor(N*r), the two sets are disjoint
\* and their union is {0..N-1}, whatever the random choice was.
C1_SplitPartition ==
    pc = "split_done" =>
        LET n == split.num_samples
            k == (n * split.train_ratio[1]) \div split.train_ratio[2]
            T == Range(split.train_indices)
            V == split.val_indices
        IN  /\ Cardinality(T) = k
            /\ Len(split.X_train) = k
            /\ Cardinality(V) = n - k
            /\ Cardinality(split.X_val) = n - k
            /\ T \cap V = {}
            /\ T \cup V = 0..(n - 1)

\* a split of 5 samples at ratio 3/4 into 3 and 2
C1_Witness ==
    /\ pc = "split_done"
    /\ split.num_samples = 5
    /\ split.train_ratio = <<3, 4>>
    /\ Len(split.train_indices) = 3
    /\ Cardinality(split.val_indices) = 2

----------------------------------------------------------------------------
(* Claims about the training loop, under SpecMain *)

\* C11: every progress line reports on the past 100 steps: at each print the
\* accumulated loss and correct-count are made of exactly 100 calls of train()
\* since the previous print or the start of the epoch, and the accumulators
\* are zero right after each print and at the start of every epoch.
C11_PrintCoversWindow ==
    /\ main.line.kind = "step" =>
          /\ main.line.calls = Window
          /\ main.loss = 0
          /\ main.num_correct = 0
    /\ main.line.kind = "epoch" =>
          /\ main.loss = 0
          /\ main.num_correct = 0

\* C11, what the loop does: the line of step 100 is printed before the 100th
\* call, so it is made of 99 calls; every later line of the epoch is made of
\* 100; the accumulators are zero after each print and at each epoch start.
C11_CoveredCalls ==
    /\ main.line.kind = "step" =>
          /\ main.line.step % Window = 0
          /\ main.line.calls = (IF main.line.step = Window THEN PrintAt ELSE Window)
          /\ main.line.accuracy <= main.line.calls
          /\ main.loss = 0
          /\ main.num_correct = 0
    /\ main.line.kind = "epoch" =>
          /\ main.loss = 0
          /\ main.num_correct = 0

\* the second line of an epoch, step 200, made of 100 calls
C11_Witness ==
    /\ main.line.kind = "step"
    /\ main.line.step = 2 * Window
    /\ main.line.calls = Window
    /\ main.epoch = 1

====
